---- MODULE Spec2Model ----
\* A model of the SelectedTag affordance of the bulk tagger
\* (openlibrary/plugins/openlibrary/js/bulk-tagger/BulkTagger/SelectedTag.js):
\* the fields of each instance, the DOM nodes the instances create, and the
\* children of the shared `.selected-tag-subjects` container; and of the top
\* level of the components' build configuration
\* (openlibrary/components/vite.config.mjs).
EXTENDS Naturals, Sequences, FiniteSets, TLC

VARIABLES
    tags,       \* instance -> its fields (this.tagType, this.tagName, ...)
    nodes,      \* the elements created so far; a node's id is its index
    container,  \* children of `.selected-tag-subjects`, first child first
    ctor,       \* history: instance -> the arguments its constructor was given
    removed,    \* history: instance -> remove() has run since its last render
    given,      \* history: instance -> the allWorksTagged argument it was given
                \* last, by updateAllWorksTagged or else by its constructor
    last,       \* history: the call made last, and what it met
    prev,       \* history: the call made before that one
    listing,        \* vite.config: what readdirSync returns, in its order
    componentNames, \* vite.config: const componentNames
    todo,           \* vite.config: the names forEach has still to visit
    written,        \* vite.config: the files writeFileSync has written
    input,          \* vite.config: const input
    pc,             \* vite.config: where the module's top level is
    gen             \* history: the last generateViteEntryFile call, and how it ended

\* The state of the build configuration.
build == <<listing, componentNames, todo, written, input, pc, gen>>

vars == <<tags, nodes, container, ctor, removed, given, last, prev, build>>

\* ---------------------------------------------------------------- bounds
\* Instances constructed in the several-instance specification.
NumTags == 2
\* renderAndAttach calls (DOM nodes created) in one behaviour.
MaxNodes == 2
\* Longest tag name / search string.
MaxLen == 2
\* Extensions after the stem of a file name of the components directory.
MaxExt == 2
\* Entries of the components directory.
MaxFiles == 2

\* ---------------------------------------------------------------- strings
\* A string is a sequence of one-character strings over this alphabet.
Alphabet == {"a", "A", "b", "B"}

Strings(n) == UNION {[1..k -> Alphabet] : k \in 0..n}

\* String.prototype.toLowerCase on one character of the alphabet.
LowerChar(c) == CASE c = "A" -> "a" [] c = "B" -> "b" [] OTHER -> c

\* A faulty variant: the case is left as it is.
toLowerCase_identity(s) == s

\* String.prototype.toLowerCase.

toLowerCase(s) == [i \in 1..Len(s) |-> LowerChar(s[i])]

\* String.prototype.startsWith.
startsWith(s, p) == Len(p) <= Len(s) /\ SubSeq(s, 1, Len(p)) = p

\* ---------------------------------------------------------------- the DOM
\* The value of a field that was declared and never assigned.
undefined == 0

classTypeSuffixes ==
    [subjects |-> "--subject", subject_people |-> "--person",
     subject_places |-> "--place", subject_times |-> "--time"]

\* The text `${classTypeSuffixes[tagType]}` interpolates: a missing key reads
\* as undefined, which the template prints as "undefined".
TypeSuffix(tagType) ==
    IF tagType \in DOMAIN classTypeSuffixes
    THEN classTypeSuffixes[tagType] ELSE "undefined"

\* The status class the template of renderAndAttach writes.
StatusClass(allWorksTagged) ==
    IF allWorksTagged THEN "selected-tag__status--all-tagged"
    ELSE "selected-tag__status--some-tagged"

\* DOMTokenList add / remove / toggle.
classListAdd(list, c) == list \cup {c}

classListRemove(list, c) == list \ {c}

\* A faulty variant: toggle only ever adds.
classListToggle_addOnly(list, c) == list \cup {c}

classListToggle(list, c) == IF c \in list THEN list \ {c} ELSE list \cup {c}

\* The element renderAndAttach builds for instance t: the root div, and the
\* class lists of its status and type spans, and the text of its name span.
createElement(t) ==
    [owner |-> t,
     classList |-> {"selected-tag"},
     status |-> {"selected-tag__status", StatusClass(tags[t].allWorksTagged)},
     type |-> {"selected-tag__type",
               "selected-tag__type" \o TypeSuffix(tags[t].tagType)},
     name |-> tags[t].tagName]

\* ParentNode.prepend and ChildNode.remove on the container's children.
\* A faulty variant: append in place of prepend.
prepend_atEnd(children, n) == Append(children, n)

prepend(children, n) == <<n>> \o children

\* A faulty variant: the first child is removed, whichever it is.
detach_first(children, n) == SubSeq(children, 2, Len(children))

\* A faulty variant: nothing is removed.
detach_none(children, n) == children

detach(children, n) == SelectSeq(children, LAMBDA m : m # n)

\* ---------------------------------------------------------------- history
\* Nodes that instance t created.
NodesOf(t) == {n \in 1..Len(nodes) : nodes[n].owner = t}

\* Nodes of instance t among the container's children.
Attached(t) == {i \in 1..Len(container) : nodes[container[i]].owner = t}

\* Where instance t is in its life: before its first renderAndAttach, after a
\* renderAndAttach with no remove since, or after such a remove.
Phase(t) ==
    IF NodesOf(t) = {} THEN "unrendered"
    ELSE IF removed[t] THEN "removed" ELSE "attached"

\* The root element of instance t carries the class `hidden`.
HasHidden(t) ==
    /\ tags[t].selectedTag # undefined
    /\ "hidden" \in nodes[tags[t].selectedTag].classList

\* The visibility of instance t as a call finds it; taken only in a behaviour
\* that keeps the call before the last.
NotTaken == [isVisible |-> TRUE, hidden |-> FALSE]

Before(t) ==
    IF prev.on
    THEN [isVisible |-> tags[t].isVisible, hidden |-> HasHidden(t)]
    ELSE NotTaken

\* The record of a call of `op` on instance t, taken in the state it is made in.
Call(op, t, arg, search, ret, threw) ==
    [op |-> op, tag |-> t, arg |-> arg, search |-> search, ret |-> ret,
     threw |-> threw, phase |-> Phase(t), before |-> Before(t)]

NoCall ==
    [op |-> "none", tag |-> 0, arg |-> FALSE, search |-> <<>>, ret |-> FALSE,
     threw |-> FALSE, phase |-> "unrendered", before |-> NotTaken]

\* What prev keeps of a call; `on` says whether the behaviour keeps it at all.
Kept(on, call) ==
    [on |-> on, op |-> call.op, tag |-> call.tag, threw |-> call.threw,
     before |-> call.before]

\* Every call records itself, and moves what is kept of the record before it
\* to prev.
Record(call) ==
    /\ last' = call
    /\ prev' = IF prev.on THEN Kept(TRUE, last) ELSE prev

\* ---------------------------------------------------------------- vite.config.mjs
\* File names and paths are strings of characters, as tag names are.
VueSuffix == <<".", "v", "u", "e">>

JsSuffix == <<".", "j", "s">>

\* The concatenation of the strings of a sequence of strings.
RECURSIVE Concat(_)
Concat(parts) == IF parts = <<>> THEN <<>> ELSE Head(parts) \o Concat(Tail(parts))

\* The file names a directory entry may have: a stem and up to MaxExt
\* extensions, each `.vue` or `.js`.
FileNames ==
    {<<"A">> \o Concat(exts) :
        exts \in UNION {[1..k -> {VueSuffix, JsSuffix}] : k \in 0..MaxExt}}

\* The directory listings: up to MaxFiles distinct names, in any order.
Listings ==
    {l \in UNION {[1..k -> FileNames] : k \in 0..MaxFiles} :
        \A i, j \in 1..Len(l) : i # j => l[i] # l[j]}

\* The places where pattern occurs in s.
Occurrences(s, pattern) ==
    {i \in 1..(Len(s) + 1) :
        /\ i + Len(pattern) - 1 <= Len(s)
        /\ SubSeq(s, i, i + Len(pattern) - 1) = pattern}

\* String.prototype.includes
includes(s, pattern) == Occurrences(s, pattern) # {}

\* String.prototype.replace with a string pattern: the first occurrence only.
replace(s, pattern, replacement) ==
    IF Occurrences(s, pattern) = {} THEN s
    ELSE LET i == CHOOSE k \in Occurrences(s, pattern) :
                      \A m \in Occurrences(s, pattern) : k <= m
         IN  SubSeq(s, 1, i - 1) \o replacement \o SubSeq(s, i + Len(pattern), Len(s))

\* The filter of getComponentNames.
IsComponentFile(name) == includes(name, VueSuffix)

\* getComponentNames() on the listing `files`.
getComponentNames(files) ==
    LET kept == SelectSeq(files, IsComponentFile)
    IN  [i \in 1..Len(kept) |-> replace(kept[i], VueSuffix, <<>>)]

\* join(BUILD_DIR, `vue-tmp-${componentName}.js`)
EntryPath(componentName) ==
    [dir |-> "static/build", file |-> <<"vue-tmp-">> \o componentName \o JsSuffix]

\* The entry file generateViteEntryFile writes: its path, and the component
\* its template imports and registers.
EntryFile(componentName) ==
    [path |-> EntryPath(componentName), component |-> componentName]

NoGen == [name |-> <<>>, failed |-> FALSE, threw |-> FALSE, exit |-> 0]

\* The build configuration before it is loaded, for a listing `files`.
BuildStart(files) ==
    /\ listing = files
    /\ componentNames = <<>>
    /\ todo = <<>>
    /\ written = {}
    /\ input = <<>>
    /\ pc = "start"
    /\ gen = NoGen

\* The build configuration is not loaded at all.
NotBuilding == BuildStart(<<>>)

UntouchedTags == UNCHANGED <<tags, nodes, container, ctor, removed, given, last, prev>>

\* const componentNames = getComponentNames()
ReadComponentNames ==
    /\ pc = "start"
    /\ componentNames' = getComponentNames(listing)
    /\ todo' = getComponentNames(listing)
    /\ pc' = "generate"
    /\ UNCHANGED <<listing, written, input, gen>>
    /\ UntouchedTags

\* One visit of componentNames.forEach(generateViteEntryFile): writeFileSync
\* writes the file, or fails; the failure is caught, logged, and the process
\* is ended with process.exit(1).
generateViteEntryFile(writes) ==
    /\ pc = "generate"
    /\ todo # <<>>
    /\ IF writes
       THEN /\ written' = written \cup {EntryFile(Head(todo))}
            /\ todo' = Tail(todo)
            /\ gen' = [name |-> Head(todo), failed |-> FALSE, threw |-> FALSE, exit |-> 0]
            /\ pc' = pc
       ELSE /\ gen' = [name |-> Head(todo), failed |-> TRUE, threw |-> FALSE, exit |-> 1]
            /\ pc' = "exited"
            /\ UNCHANGED <<written, todo>>
    /\ UNCHANGED <<listing, componentNames, input>>
    /\ UntouchedTags

\* const input = {}; componentNames.forEach(... input[componentName] = join(...))
BuildInput ==
    /\ pc = "generate"
    /\ todo = <<>>
    /\ input' = [n \in {componentNames[i] : i \in 1..Len(componentNames)} |-> EntryPath(n)]
    /\ pc' = "done"
    /\ UNCHANGED <<listing, componentNames, todo, written, gen>>
    /\ UntouchedTags

\* ---------------------------------------------------------------- construction
TagTypes == {"subjects", "subject_people", "subject_places", "subject_times", "works"}

\* new SelectedTag(tagType, tagName, allWorksTagged)
constructor(tagType, tagName, allWorksTagged) ==
    [tagType |-> tagType,
     tagName |-> tagName,
     allWorksTagged |-> allWorksTagged,
     isVisible |-> TRUE,
     selectedTag |-> undefined,
     LOWERCASE_TAG_NAME |-> toLowerCase(tagName)]

Args(types, names, flags) ==
    [tagType : types, tagName : names, allWorksTagged : flags]

\* The state after constructing the instances of `ids` with arguments from `args`.
Constructed(ids, args, keep) ==
    /\ ctor \in [ids -> args]
    /\ tags = [t \in ids |->
                 constructor(ctor[t].tagType, ctor[t].tagName, ctor[t].allWorksTagged)]
    /\ nodes = <<>>
    /\ container = <<>>
    /\ removed = [t \in ids |-> FALSE]
    /\ given = [t \in ids |-> ctor[t].allWorksTagged]
    /\ last = NoCall
    /\ prev = Kept(keep, NoCall)
    /\ NotBuilding

\* ---------------------------------------------------------------- operations
\* A faulty variant: the element is not kept in this.selectedTag.
renderAndAttach_noHandle(t) ==
    /\ Len(nodes) < MaxNodes
    /\ nodes' = Append(nodes, createElement(t))
    /\ container' = prepend(container, Len(nodes) + 1)
    /\ removed' = [removed EXCEPT ![t] = FALSE]
    /\ Record(Call("renderAndAttach", t, FALSE, <<>>, FALSE, FALSE))
    /\ UNCHANGED <<tags, ctor, given>>
    /\ UNCHANGED build

\* renderAndAttach(): build the element, prepend it to the container, keep it.
renderAndAttach(t) ==
    /\ Len(nodes) < MaxNodes
    /\ nodes' = Append(nodes, createElement(t))
    /\ container' = prepend(container, Len(nodes) + 1)
    /\ tags' = [tags EXCEPT ![t].selectedTag = Len(nodes) + 1]
    /\ removed' = [removed EXCEPT ![t] = FALSE]
    /\ Record(Call("renderAndAttach", t, FALSE, <<>>, FALSE, FALSE))
    /\ UNCHANGED <<ctor, given>>
    /\ UNCHANGED build

\* remove(): this.selectedTag.remove(). An undefined handle throws a TypeError;
\* the handle is kept, and removing a detached element does nothing.
remove(t) ==
    /\ IF tags[t].selectedTag = undefined
       THEN /\ Record(Call("remove", t, FALSE, <<>>, FALSE, TRUE))
            /\ UNCHANGED <<container, removed>>
       ELSE /\ container' = detach(container, tags[t].selectedTag)
            /\ removed' = [removed EXCEPT ![t] = TRUE]
            /\ Record(Call("remove", t, FALSE, <<>>, FALSE, FALSE))
    /\ UNCHANGED <<tags, nodes, ctor, given>>
    /\ UNCHANGED build

\* A faulty variant: the marker is added and the other one is left in place.
updateStatus_addOnly(status, allWorksTagged) ==
    IF allWorksTagged
    THEN classListAdd(status, "selected-tag__status--all-tagged")
    ELSE classListAdd(status, "selected-tag__status--some-tagged")

\* The class list of the status span after updateAllWorksTagged(allWorksTagged).
updateStatus(status, allWorksTagged) ==
    IF allWorksTagged
    THEN classListAdd(classListRemove(status, "selected-tag__status--some-tagged"),
                      "selected-tag__status--all-tagged")
    ELSE classListAdd(classListRemove(status, "selected-tag__status--all-tagged"),
                      "selected-tag__status--some-tagged")

\* updateAllWorksTagged(allWorksTagged): the field is assigned first, then the
\* handle is dereferenced (a TypeError when it is undefined).
updateAllWorksTagged(t, allWorksTagged) ==
    /\ tags' = [tags EXCEPT ![t].allWorksTagged = allWorksTagged]
    /\ given' = [given EXCEPT ![t] = allWorksTagged]
    /\ IF tags[t].selectedTag = undefined
       THEN /\ Record(Call("updateAllWorksTagged", t, allWorksTagged, <<>>, FALSE, TRUE))
            /\ UNCHANGED nodes
       ELSE /\ nodes' = [nodes EXCEPT ![tags[t].selectedTag].status =
                            updateStatus(@, allWorksTagged)]
            /\ Record(Call("updateAllWorksTagged", t, allWorksTagged, <<>>, FALSE, FALSE))
    /\ UNCHANGED <<container, ctor, removed>>
    /\ UNCHANGED build

\* A faulty variant: the class is added and isVisible is not assigned.
hide_markerOnly(t) ==
    /\ IF tags[t].selectedTag = undefined
       THEN /\ Record(Call("hide", t, FALSE, <<>>, FALSE, TRUE))
            /\ UNCHANGED nodes
       ELSE /\ nodes' = [nodes EXCEPT ![tags[t].selectedTag].classList =
                            classListAdd(@, "hidden")]
            /\ Record(Call("hide", t, FALSE, <<>>, FALSE, FALSE))
    /\ UNCHANGED <<tags, container, ctor, removed, given>>
    /\ UNCHANGED build

\* A faulty variant: the class is toggled in place of added.
hide_toggles(t) ==
    /\ IF tags[t].selectedTag = undefined
       THEN /\ Record(Call("hide", t, FALSE, <<>>, FALSE, TRUE))
            /\ UNCHANGED <<tags, nodes>>
       ELSE /\ nodes' = [nodes EXCEPT ![tags[t].selectedTag].classList =
                            classListToggle(@, "hidden")]
            /\ tags' = [tags EXCEPT ![t].isVisible = FALSE]
            /\ Record(Call("hide", t, FALSE, <<>>, FALSE, FALSE))
    /\ UNCHANGED <<container, ctor, removed, given>>
    /\ UNCHANGED build

\* hide(): the handle is dereferenced first, then isVisible is assigned.
hide(t) ==
    /\ IF tags[t].selectedTag = undefined
       THEN /\ Record(Call("hide", t, FALSE, <<>>, FALSE, TRUE))
            /\ UNCHANGED <<tags, nodes>>
       ELSE /\ nodes' = [nodes EXCEPT ![tags[t].selectedTag].classList =
                            classListAdd(@, "hidden")]
            /\ tags' = [tags EXCEPT ![t].isVisible = FALSE]
            /\ Record(Call("hide", t, FALSE, <<>>, FALSE, FALSE))
    /\ UNCHANGED <<container, ctor, removed, given>>
    /\ UNCHANGED build

\* A faulty variant: the class is removed and isVisible is not assigned.
show_markerOnly(t) ==
    /\ IF tags[t].selectedTag = undefined
       THEN /\ Record(Call("show", t, FALSE, <<>>, FALSE, TRUE))
            /\ UNCHANGED nodes
       ELSE /\ nodes' = [nodes EXCEPT ![tags[t].selectedTag].classList =
                            classListRemove(@, "hidden")]
            /\ Record(Call("show", t, FALSE, <<>>, FALSE, FALSE))
    /\ UNCHANGED <<tags, container, ctor, removed, given>>
    /\ UNCHANGED build

\* show(): as hide(), with the class removed.
show(t) ==
    /\ IF tags[t].selectedTag = undefined
       THEN /\ Record(Call("show", t, FALSE, <<>>, FALSE, TRUE))
            /\ UNCHANGED <<tags, nodes>>
       ELSE /\ nodes' = [nodes EXCEPT ![tags[t].selectedTag].classList =
                            classListRemove(@, "hidden")]
            /\ tags' = [tags EXCEPT ![t].isVisible = TRUE]
            /\ Record(Call("show", t, FALSE, <<>>, FALSE, FALSE))
    /\ UNCHANGED <<container, ctor, removed, given>>
    /\ UNCHANGED build

\* A faulty variant: the wrong field is negated.
toggleVisibility_wrongField(t) ==
    /\ IF tags[t].selectedTag = undefined
       THEN /\ Record(Call("toggleVisibility", t, FALSE, <<>>, FALSE, TRUE))
            /\ UNCHANGED <<tags, nodes>>
       ELSE /\ nodes' = [nodes EXCEPT ![tags[t].selectedTag].classList =
                            classListToggle(@, "hidden")]
            /\ tags' = [tags EXCEPT ![t].allWorksTagged = ~tags[t].allWorksTagged]
            /\ Record(Call("toggleVisibility", t, FALSE, <<>>, FALSE, FALSE))
    /\ UNCHANGED <<container, ctor, removed, given>>
    /\ UNCHANGED build

\* toggleVisibility(): the class is toggled, the field negated.
toggleVisibility(t) ==
    /\ IF tags[t].selectedTag = undefined
       THEN /\ Record(Call("toggleVisibility", t, FALSE, <<>>, FALSE, TRUE))
            /\ UNCHANGED <<tags, nodes>>
       ELSE /\ nodes' = [nodes EXCEPT ![tags[t].selectedTag].classList =
                            classListToggle(@, "hidden")]
            /\ tags' = [tags EXCEPT ![t].isVisible = ~tags[t].isVisible]
            /\ Record(Call("toggleVisibility", t, FALSE, <<>>, FALSE, FALSE))
    /\ UNCHANGED <<container, ctor, removed, given>>
    /\ UNCHANGED build

\* A faulty variant: the tag name is lower-cased in place before the comparison.
tagNameStartsWith_inPlace(t, searchString) ==
    /\ tags' = [tags EXCEPT ![t].tagName = toLowerCase(@)]
    /\ Record(Call("tagNameStartsWith", t, FALSE, searchString,
                   startsWith(toLowerCase(tags[t].tagName), toLowerCase(searchString)),
                   FALSE))
    /\ UNCHANGED <<nodes, container, ctor, removed, given>>
    /\ UNCHANGED build

\* tagNameStartsWith(searchString): compares the cached lower-case name.
tagNameStartsWith(t, searchString) ==
    /\ Record(Call("tagNameStartsWith", t, FALSE, searchString,
                   startsWith(tags[t].LOWERCASE_TAG_NAME, toLowerCase(searchString)),
                   FALSE))
    /\ UNCHANGED <<tags, nodes, container, ctor, removed, given>>
    /\ UNCHANGED build

\* ---------------------------------------------------------------- specifications
\* One instance, of any tag type, and every operation on it.
Init == Constructed({1}, Args(TagTypes, {<<"A", "b">>}, BOOLEAN), FALSE)

Next ==
    \/ \E t \in DOMAIN tags : renderAndAttach(t)
    \/ \E t \in DOMAIN tags : remove(t)
    \/ \E t \in DOMAIN tags : \E b \in BOOLEAN : updateAllWorksTagged(t, b)
    \/ \E t \in DOMAIN tags : hide(t)
    \/ \E t \in DOMAIN tags : show(t)
    \/ \E t \in DOMAIN tags : toggleVisibility(t)
    \/ \E t \in DOMAIN tags : \E s \in {<<>>, <<"a">>, <<"B">>} : tagNameStartsWith(t, s)

Spec == Init /\ [][Next]_vars

\* Several instances share the container: they are attached, hidden, shown
\* and removed in any order.
InitShared == Constructed(1..NumTags, Args({"subjects"}, {<<"A", "b">>}, {FALSE}), FALSE)

NextShared ==
    \/ \E t \in DOMAIN tags : renderAndAttach(t)
    \/ \E t \in DOMAIN tags : remove(t)
    \/ \E t \in DOMAIN tags : hide(t)
    \/ \E t \in DOMAIN tags : show(t)

SpecShared == InitShared /\ [][NextShared]_vars

\* One instance of any name, searched for any string.
InitSearch == Constructed({1}, Args({"subjects"}, Strings(MaxLen), {FALSE}), FALSE)

NextSearch ==
    \/ \E t \in DOMAIN tags : renderAndAttach(t)
    \/ \E t \in DOMAIN tags : \E s \in Strings(MaxLen) : tagNameStartsWith(t, s)

SpecSearch == InitSearch /\ [][NextSearch]_vars

\* One instance, in behaviours that keep the call before the last.
InitPairs == Constructed({1}, Args({"subjects"}, {<<"A", "b">>}, BOOLEAN), TRUE)

NextPairs ==
    \/ \E t \in DOMAIN tags : renderAndAttach(t)
    \/ \E t \in DOMAIN tags : remove(t)
    \/ \E t \in DOMAIN tags : \E b \in BOOLEAN : updateAllWorksTagged(t, b)
    \/ \E t \in DOMAIN tags : hide(t)
    \/ \E t \in DOMAIN tags : show(t)
    \/ \E t \in DOMAIN tags : toggleVisibility(t)

SpecPairs == InitPairs /\ [][NextPairs]_vars

\* Three instances, constructed and then rendered in turn, and every operation
\* on them but a further renderAndAttach.
InitAttached ==
    /\ ctor \in [{1, 2, 3} -> Args({"subjects"}, {<<"A", "b">>}, {FALSE})]
    /\ tags = [t \in {1, 2, 3} |->
                 [constructor(ctor[t].tagType, ctor[t].tagName, ctor[t].allWorksTagged)
                     EXCEPT !.selectedTag = t]]
    /\ nodes = [t \in {1, 2, 3} |-> createElement(t)]
    /\ container = prepend(prepend(prepend(<<>>, 1), 2), 3)
    /\ removed = [t \in {1, 2, 3} |-> FALSE]
    /\ given = [t \in {1, 2, 3} |-> ctor[t].allWorksTagged]
    /\ last = [NoCall EXCEPT !.op = "renderAndAttach", !.tag = 3]
    /\ prev = Kept(FALSE, NoCall)
    /\ NotBuilding

NextAttached ==
    \/ \E t \in DOMAIN tags : remove(t)
    \/ \E t \in DOMAIN tags : \E b \in BOOLEAN : updateAllWorksTagged(t, b)
    \/ \E t \in DOMAIN tags : hide(t)
    \/ \E t \in DOMAIN tags : show(t)
    \/ \E t \in DOMAIN tags : toggleVisibility(t)

SpecAttached == InitAttached /\ [][NextAttached]_vars

\* The build configuration is loaded, for any listing of the components
\* directory; no SelectedTag exists.
InitBuild ==
    /\ tags = <<>> /\ nodes = <<>> /\ container = <<>> /\ ctor = <<>>
    /\ removed = <<>> /\ given = <<>>
    /\ last = NoCall
    /\ prev = Kept(FALSE, NoCall)
    /\ \E files \in Listings : BuildStart(files)

NextBuild ==
    \/ ReadComponentNames
    \/ \E writes \in BOOLEAN : generateViteEntryFile(writes)
    \/ BuildInput

SpecBuild == InitBuild /\ [][NextBuild]_vars

\* ---------------------------------------------------------------- properties
Handle(t) == tags[t].selectedTag

\* renderAndAttach has been called exactly once on instance t.
RenderedOnce(t) == Cardinality(NodesOf(t)) = 1

AllTagged == "selected-tag__status--all-tagged"

SomeTagged == "selected-tag__status--some-tagged"

\* C1: on an instance rendered once, the status span carries exactly one of the
\* markers all-tagged / some-tagged, it is all-tagged exactly when the field
\* allWorksTagged is true, and the field is the argument of the last
\* updateAllWorksTagged call, or the constructor's when there was none.
C1_StatusMarkerFollowsField ==
    \A t \in DOMAIN tags :
        RenderedOnce(t) =>
            /\ Cardinality(nodes[Handle(t)].status \cap {AllTagged, SomeTagged}) = 1
            /\ (AllTagged \in nodes[Handle(t)].status) <=> tags[t].allWorksTagged
            /\ tags[t].allWorksTagged = given[t]

\* An update to all-tagged has reached the node of an instance constructed
\* some-tagged.
C1_Witness ==
    \E t \in DOMAIN tags :
        /\ RenderedOnce(t)
        /\ last.op = "updateAllWorksTagged" /\ last.tag = t /\ last.arg
        /\ ~ctor[t].allWorksTagged
        /\ ~tags[t].isVisible
        /\ AllTagged \in nodes[Handle(t)].status

\* C2: on an instance rendered once, isVisible is true exactly when the node
\* does not carry `hidden`, and the instance is visible right after
\* renderAndAttach.
C2_IsVisibleFollowsHiddenMarker ==
    \A t \in DOMAIN tags :
        RenderedOnce(t) =>
            /\ tags[t].isVisible <=> ~HasHidden(t)
            /\ (last.op = "renderAndAttach" /\ last.tag = t) => tags[t].isVisible

\* toggleVisibility has hidden a rendered instance.
C2_Witness ==
    \E t \in DOMAIN tags :
        /\ RenderedOnce(t)
        /\ last.op = "toggleVisibility" /\ last.tag = t /\ ~last.threw
        /\ ~tags[t].isVisible
        /\ HasHidden(t)

\* C3 as claimed: the handle is set exactly when renderAndAttach has been
\* called and remove has not been called since.
C3_HandleSetIffAttached ==
    \A t \in DOMAIN tags : (Handle(t) # undefined) <=> (Phase(t) = "attached")

\* C3 as amended: the handle is set exactly when renderAndAttach has been
\* called; remove() keeps it, and it then names an element that is not among
\* the container's children.
C3_HandleSetIffRendered ==
    \A t \in DOMAIN tags :
        /\ (Handle(t) # undefined) <=> (Phase(t) # "unrendered")
        /\ Phase(t) # "unrendered" => Handle(t) \in NodesOf(t)
        /\ Phase(t) = "removed" =>
               \A i \in 1..Len(container) : container[i] # Handle(t)

\* remove() has run on a rendered instance.
C3_Witness ==
    \E t \in DOMAIN tags :
        /\ last.op = "remove" /\ last.tag = t /\ last.phase = "attached"
        /\ Phase(t) = "removed"
        /\ Handle(t) # undefined

Mutators == {"updateAllWorksTagged", "hide", "show", "toggleVisibility"}

\* C4 as claimed: a mutator called before renderAndAttach or after remove fails
\* with an error and leaves the fields allWorksTagged and isVisible and the
\* node's markers as they were.
C4_IllegalCallsFailUnchanged ==
    [][(last'.op \in Mutators /\ last'.phase # "attached") =>
          /\ last'.threw
          /\ tags'[last'.tag].allWorksTagged = tags[last'.tag].allWorksTagged
          /\ tags'[last'.tag].isVisible = tags[last'.tag].isVisible
          /\ nodes' = nodes]_vars

\* C5: the container holds no node of an instance before its renderAndAttach,
\* and right after that call exactly one, as its first child.
C5_RenderAttachesOneNodeFirst ==
    \A t \in DOMAIN tags :
        /\ Phase(t) = "unrendered" => Attached(t) = {}
        /\ (last.op = "renderAndAttach" /\ last.tag = t /\ last.phase = "unrendered") =>
               /\ Cardinality(Attached(t)) = 1
               /\ container[1] = Handle(t)
               /\ nodes[container[1]].owner = t

\* An instance has been rendered into a container that held another's node.
C5_Witness ==
    \E t \in DOMAIN tags :
        /\ last.op = "renderAndAttach" /\ last.tag = t /\ last.phase = "unrendered"
        /\ Len(container) >= 2
        /\ container[1] = Handle(t)

\* C6: when each instance was rendered at most once, the container's children
\* are exactly the nodes of the instances rendered and not removed, the one
\* attached last first. Node ids count the renderAndAttach calls, so a later
\* call made the node with the larger id.
C6_ContainerHoldsAttachedNewestFirst ==
    (\A t \in DOMAIN tags : Cardinality(NodesOf(t)) <= 1) =>
        LET live == {Handle(t) : t \in {u \in DOMAIN tags : Phase(u) = "attached"}}
        IN  /\ {container[i] : i \in 1..Len(container)} = live
            /\ Len(container) = Cardinality(live)
            /\ \A i, j \in 1..Len(container) : i < j => container[i] > container[j]

\* Two instances were rendered and the one rendered first was removed.
C6_Witness ==
    \E t, u \in DOMAIN tags :
        /\ Phase(t) = "removed" /\ Phase(u) = "attached"
        /\ RenderedOnce(t) /\ RenderedOnce(u)
        /\ Handle(t) < Handle(u)
        /\ container = <<Handle(u)>>

\* C7 as claimed: after remove() on a rendered instance the container does not
\* hold its node, and a second remove() is rejected.
C7_SecondRemoveRejected ==
    (last.op = "remove" /\ last.phase # "unrendered") =>
        /\ \A i \in 1..Len(container) : container[i] # Handle(last.tag)
        /\ last.phase = "removed" => last.threw

\* C7 as amended: after remove() on a rendered instance the container does not
\* hold its node, and a second remove() is accepted and does nothing: it
\* raises no error and leaves the container, the nodes and the fields as they
\* were.
C7_SecondRemoveDoesNothing ==
    [][(last'.op = "remove" /\ last'.phase # "unrendered") =>
          /\ \A i \in 1..Len(container') : container'[i] # tags'[last'.tag].selectedTag
          /\ ~last'.threw
          /\ last'.phase = "removed" => UNCHANGED <<tags, nodes, container, removed>>]_vars

\* remove() has run on an instance that was removed already.
C7_Witness ==
    /\ last.op = "remove" /\ last.phase = "removed" /\ ~last.threw
    /\ Phase(last.tag) = "removed"

\* The letter a character writes, whatever its case.
Letter(c) == CASE c \in {"a", "A"} -> 1 [] c \in {"b", "B"} -> 2

\* s is a prefix of name when case is ignored.
CaseInsensitivePrefix(s, name) ==
    /\ Len(s) <= Len(name)
    /\ \A i \in 1..Len(s) : Letter(s[i]) = Letter(name[i])

\* C8: tagNameStartsWith(s) returns true exactly when s is a prefix of the tag
\* name with case ignored, so for the empty string and for the name in any
\* case; it returns for every s, and changes nothing of the instance.
C8_StartsWithIsCaseInsensitivePrefix ==
    /\ [][last'.op = "tagNameStartsWith" =>
             /\ ~last'.threw
             /\ last'.ret <=> CaseInsensitivePrefix(last'.search, tags[last'.tag].tagName)
             /\ last'.search = <<>> => last'.ret
             /\ (/\ Len(last'.search) = Len(tags[last'.tag].tagName)
                 /\ CaseInsensitivePrefix(last'.search, tags[last'.tag].tagName))
                    => last'.ret
             /\ UNCHANGED <<tags, nodes, container>>]_vars
    /\ [](\A t \in DOMAIN tags : \A s \in Strings(MaxLen) : ENABLED tagNameStartsWith(t, s))

\* A rendered instance was searched for its full name in another case.
C8_Witness ==
    /\ last.op = "tagNameStartsWith" /\ last.ret
    /\ Handle(last.tag) # undefined
    /\ Len(last.search) = Len(tags[last.tag].tagName)
    /\ \A i \in 1..Len(last.search) : last.search[i] # tags[last.tag].tagName[i]
    /\ Len(last.search) = MaxLen

\* C9: tagType, tagName and the cached lower-case name keep the values the
\* constructor gave them.
C9_NameAndTypeKeepConstructorValues ==
    \A t \in DOMAIN tags :
        /\ tags[t].tagType = ctor[t].tagType
        /\ tags[t].tagName = ctor[t].tagName
        /\ Len(tags[t].LOWERCASE_TAG_NAME) = Len(ctor[t].tagName)
        /\ \A i \in 1..Len(ctor[t].tagName) :
               /\ Letter(tags[t].LOWERCASE_TAG_NAME[i]) = Letter(ctor[t].tagName[i])
               /\ tags[t].LOWERCASE_TAG_NAME[i] \in {"a", "b"}

\* An instance was rendered, updated, hidden, searched and removed.
C9_Witness ==
    \E t \in DOMAIN tags :
        /\ Phase(t) = "removed"
        /\ ~tags[t].isVisible
        /\ tags[t].allWorksTagged # ctor[t].allWorksTagged
        /\ last.op = "tagNameStartsWith" /\ last.tag = t /\ last.ret
        /\ tags[t].tagName # tags[t].LOWERCASE_TAG_NAME

\* C10: on a rendered instance, hide() and then show() end with isVisible true
\* and no `hidden` on the node, whether the instance was visible or hidden
\* before the hide().
C10_HideThenShowIsVisible ==
    \A t \in DOMAIN tags :
        (/\ prev.on /\ prev.op = "hide" /\ prev.tag = t
         /\ last.op = "show" /\ last.tag = t
         /\ last.phase # "unrendered") =>
            /\ ~prev.threw /\ ~last.threw
            /\ tags[t].isVisible
            /\ ~HasHidden(t)

\* hide() and then show() have run on an instance that was hidden before.
C10_Witness ==
    \E t \in DOMAIN tags :
        /\ prev.on /\ prev.op = "hide" /\ prev.tag = t
        /\ ~prev.before.isVisible /\ prev.before.hidden
        /\ last.op = "show" /\ last.tag = t /\ last.phase = "attached"
        /\ tags[t].isVisible

\* C11: on a rendered instance, two toggleVisibility() calls in a row return
\* isVisible and the presence of `hidden` to what they were before the first.
C11_ToggleTwiceRestores ==
    \A t \in DOMAIN tags :
        (/\ prev.on /\ prev.op = "toggleVisibility" /\ prev.tag = t
         /\ last.op = "toggleVisibility" /\ last.tag = t
         /\ last.phase # "unrendered") =>
            /\ ~prev.threw /\ ~last.threw
            /\ tags[t].isVisible = prev.before.isVisible
            /\ HasHidden(t) = prev.before.hidden

\* toggleVisibility() has run twice in a row on an instance that was hidden.
C11_Witness ==
    \E t \in DOMAIN tags :
        /\ prev.on /\ prev.op = "toggleVisibility" /\ prev.tag = t
        /\ ~prev.before.isVisible /\ prev.before.hidden
        /\ last.op = "toggleVisibility" /\ last.tag = t /\ last.phase = "attached"
        /\ last.before.isVisible
        /\ HasHidden(t)

\* C12: on a rendered instance a second hide() in a row changes nothing and
\* leaves `hidden` present and isVisible false; a second show() in a row
\* changes nothing and leaves `hidden` absent and isVisible true.
C12_HideAndShowIdempotent ==
    [][\A t \in DOMAIN tags :
          (/\ last.tag = t /\ last'.tag = t /\ last'.phase # "unrendered"
           /\ last.op \in {"hide", "show"} /\ last'.op = last.op) =>
              /\ ~last'.threw
              /\ UNCHANGED <<tags, nodes, container>>
              /\ tags'[t].isVisible = (last.op = "show")
              /\ HasHidden(t)' = (last.op = "hide")]_vars

\* hide() has run twice in a row on an instance that was visible.
C12_Witness ==
    \E t \in DOMAIN tags :
        /\ prev.on /\ prev.op = "hide" /\ prev.tag = t /\ prev.before.isVisible
        /\ last.op = "hide" /\ last.tag = t /\ last.phase = "attached"
        /\ ~last.before.isVisible
        /\ HasHidden(t) /\ ~tags[t].isVisible

Recognized == {"subjects", "subject_people", "subject_places", "subject_times"}

\* C13 as claimed: the type span of a rendered node carries the category
\* marker of its instance's tagType (subjects -> subject, subject_people ->
\* person, subject_places -> place, subject_times -> time), and for any other
\* tagType it carries no category marker (a call that reports an error
\* instead renders no node).
C13_CategoryMarkerWellFormed ==
    \A n \in 1..Len(nodes) :
        LET tagType == tags[nodes[n].owner].tagType
            marker == nodes[n].type \ {"selected-tag__type"}
        IN  /\ tagType = "subjects" => marker = {"selected-tag__type--subject"}
            /\ tagType = "subject_people" => marker = {"selected-tag__type--person"}
            /\ tagType = "subject_places" => marker = {"selected-tag__type--place"}
            /\ tagType = "subject_times" => marker = {"selected-tag__type--time"}
            /\ tagType \notin Recognized => marker = {}

\* C14: on a rendered instance updateAllWorksTagged leaves isVisible and the
\* root's classes as they were, hide, show and toggleVisibility leave
\* allWorksTagged and the status span's classes as they were, and none of the
\* four changes the container's children.
C14_StatusAndVisibilityIndependent ==
    [][\A t \in DOMAIN tags :
          (last'.tag = t /\ last'.phase # "unrendered" /\ last'.op \in Mutators) =>
              /\ container' = container
              /\ Handle(t)' = Handle(t)
              /\ last'.op = "updateAllWorksTagged" =>
                     /\ tags'[t].isVisible = tags[t].isVisible
                     /\ nodes'[Handle(t)].classList = nodes[Handle(t)].classList
              /\ last'.op # "updateAllWorksTagged" =>
                     /\ tags'[t].allWorksTagged = tags[t].allWorksTagged
                     /\ nodes'[Handle(t)].status = nodes[Handle(t)].status]_vars

\* A hidden, attached instance was updated to the other status, and is
\* hidden still.
C14_Witness ==
    \E t \in DOMAIN tags :
        /\ last.op = "updateAllWorksTagged" /\ last.tag = t /\ last.phase = "attached"
        /\ last.arg # ctor[t].allWorksTagged
        /\ HasHidden(t) /\ ~tags[t].isVisible
        /\ Attached(t) # {}

\* Node a comes before node b among the children.
Precedes(children, a, b) ==
    \E i, j \in 1..Len(children) : i < j /\ children[i] = a /\ children[j] = b

Children(children) == {children[i] : i \in 1..Len(children)}

\* C15: an operation on one instance leaves the fields of every other
\* instance, the markers of its node and the node's presence in the container
\* as they were, and remove leaves the other nodes in the order they had.
C15_OtherInstancesUntouched ==
    [][\A t \in DOMAIN tags :
          last'.tag = t =>
              /\ \A u \in DOMAIN tags \ {t} :
                     /\ tags'[u] = tags[u]
                     /\ nodes'[Handle(u)] = nodes[Handle(u)]
                     /\ (Handle(u) \in Children(container')) <=>
                            (Handle(u) \in Children(container))
              /\ last'.op = "remove" =>
                     \A u, v \in DOMAIN tags \ {t} :
                         Precedes(container', Handle(u), Handle(v)) <=>
                             Precedes(container, Handle(u), Handle(v))]_vars

\* The middle one of three attached instances was removed; the other two,
\* one hidden and one updated, keep their places.
C15_Witness ==
    /\ last.op = "remove" /\ last.tag = 2 /\ last.phase = "attached"
    /\ container = <<Handle(3), Handle(1)>>
    /\ HasHidden(1) /\ ~tags[1].isVisible
    /\ tags[3].allWorksTagged /\ AllTagged \in nodes[Handle(3)].status

\* s ends with suffix, and s without it.
EndsWith(s, suffix) ==
    /\ Len(s) >= Len(suffix)
    /\ SubSeq(s, Len(s) - Len(suffix) + 1, Len(s)) = suffix

StripSuffix(s, suffix) == SubSeq(s, 1, Len(s) - Len(suffix))

\* C16 as claimed: once the configuration is loaded, the component names are
\* exactly the listed file names that end with `.vue`, without that suffix;
\* one entry file was written per such name; and input maps each such name,
\* and nothing else, to vue-tmp-<name>.js in the build directory.
C16_ComponentsAreTheVueFiles ==
    pc = "done" =>
        LET expected ==
                {StripSuffix(listing[i], VueSuffix) :
                    i \in {k \in 1..Len(listing) : EndsWith(listing[k], VueSuffix)}}
            PathOf(n) ==
                [dir |-> "static/build",
                 file |-> <<"vue-tmp-">> \o n \o <<".", "j", "s">>]
        IN  /\ {componentNames[i] : i \in 1..Len(componentNames)} = expected
            /\ written = {[path |-> PathOf(n), component |-> n] : n \in expected}
            /\ DOMAIN input = expected
            /\ \A n \in expected : input[n] = PathOf(n)

\* C17 as claimed: when writing the entry file fails, generateViteEntryFile
\* throws an Error to its caller.
C17_WriteFailureThrows ==
    gen.failed => gen.threw

====
